---- MODULE Spec2Model ----
(***************************************************************************)
(* getnew: move the nth newest file of a source directory to the current   *)
(* directory, optionally unarchiving afterwards.                           *)
(*                                                                         *)
(* The model follows cmd/root.go as found in src/unnamed/part_000 (the     *)
(* copy+remove build with --unarchive) and src/cmd/root.go (the os.Rename  *)
(* build).  File names are sequences of one-character strings so that      *)
(* strings.ToLower, strings.Contains and filepath.Ext are computed, not    *)
(* assumed.  The file system is a function from directory to the entries   *)
(* it holds; every system call that can fail has a failing branch.         *)
(***************************************************************************)
EXTENDS Integers, Sequences, FiniteSets, TLC

(***************************************************************************)
(* Bounds of the model.                                                    *)
(***************************************************************************)
MaxFiles == 3      \* entries of the source directory in a selection run
MaxTime == 3       \* modification times are 1..MaxTime

(***************************************************************************)
(* Characters and strings.                                                 *)
(***************************************************************************)
Ascii == << ".", "0", "1", "2", "3", "4", "5", "6", "7", "8", "9",
            "A", "B", "C", "D", "E", "F", "G", "H", "I", "J", "K", "L", "M",
            "N", "O", "P", "Q", "R", "S", "T", "U", "V", "W", "X", "Y", "Z",
            "a", "b", "c", "d", "e", "f", "g", "h", "i", "j", "k", "l", "m",
            "n", "o", "p", "q", "r", "s", "t", "u", "v", "w", "x", "y", "z" >>

\* position of a character in byte order
OrdOf == [c \in {Ascii[i] : i \in 1..Len(Ascii)} |-> CHOOSE i \in 1..Len(Ascii) : Ascii[i] = c]

Ord(c) == OrdOf[c]

UpperFirst == Ord("A")
UpperLast == Ord("Z")
CaseGap == Ord("a") - Ord("A")

\* strings.ToLower, one character
ToLowerChar(c) ==
    IF Ord(c) >= UpperFirst /\ Ord(c) <= UpperLast THEN Ascii[Ord(c) + CaseGap] ELSE c

\* strings.ToLower
ToLower(s) == [i \in 1..Len(s) |-> ToLowerChar(s[i])]

\* strings.Contains
Contains(s, sub) ==
    \E i \in 0..(Len(s) - Len(sub)) : SubSeq(s, i + 1, i + Len(sub)) = sub

\* filepath.Ext: the suffix beginning at the final dot, empty if there is none
Ext(name) ==
    LET dots == {i \in 1..Len(name) : name[i] = "."}
    IN  IF dots = {} THEN << >>
        ELSE LET last == CHOOSE i \in dots : \A j \in dots : j <= i
             IN  SubSeq(name, last, Len(name))

\* byte-wise string comparison s < t
RECURSIVE StrLess(_, _)
StrLess(s, t) ==
    IF t = << >> THEN FALSE
    ELSE IF s = << >> THEN TRUE
    ELSE IF Ord(Head(s)) # Ord(Head(t)) THEN Ord(Head(s)) < Ord(Head(t))
    ELSE StrLess(Tail(s), Tail(t))

(***************************************************************************)
(* File names of the modelled directories.                                 *)
(***************************************************************************)
a_txt == << "a", ".", "t", "x", "t" >>
c_txt == << "c", ".", "t", "x", "t" >>
b_log == << "b", ".", "l", "o", "g" >>
L_TXT == << "L", ".", "T", "X", "T" >>                   \* a symbolic link
sub_txt == << "s", "u", "b", ".", "t", "x", "t" >>       \* a directory
d_ZIP == << "d", ".", "Z", "I", "P" >>
k_tar_gz == << "k", ".", "t", "a", "r", ".", "g", "z" >>
m_tgz == << "m", ".", "t", "g", "z" >>
g_tar == << "g", ".", "t", "a", "r" >>
z_7z == << "z", ".", "7", "z" >>
A_tar == << "A", ".", "t", "a", "r" >>

SelectionNames == {a_txt, c_txt, b_log, L_TXT, sub_txt}
ArchiveNames == {b_log, d_ZIP, k_tar_gz, m_tgz, g_tar, z_7z}

Filters == { << >>, << "t", "x", "t" >>, << "L", "O", "G" >> }

\* values of --nth: negative, zero, every rank, and one past the last
NthValues == (0 - 1)..(MaxFiles + 1)

Dirs == {"dl", "."}
Cwd == "."

KindOf(n) == IF n = sub_txt THEN "dir" ELSE IF n = L_TXT THEN "symlink" ELSE "file"

\* the bytes of a file of the source directory; b.log is empty
Content(n) == IF n = b_log THEN << >> ELSE << Ord(n[1]), Len(n) >>

\* the bytes of a file that is in the current directory before the run
OldContent == << 0 >>

NoDir == [n \in {} |-> 0]

\* a directory: the entries named by the domain of times
DirOf(times, old) ==
    [n \in DOMAIN times |->
        [kind |-> KindOf(n), mtime |-> times[n],
         data |-> IF old THEN OldContent ELSE Content(n)]]

\* the directories to list: at most max entries, each file and link with any
\* modification time (the time of a directory is never read and is left at 1)
Listings(names, max) ==
    UNION { {t \in [S -> 1..MaxTime] : \A n \in S : KindOf(n) = "dir" => t[n] = 1} :
            S \in {T \in SUBSET names : Cardinality(T) <= max} }

\* what the current directory may hold before a run that reads another directory
CwdBefore ==
    { NoDir,
      DirOf([n \in {d_ZIP} |-> 1], TRUE),
      DirOf([n \in {a_txt, g_tar} |-> 1], TRUE),
      DirOf([n \in {A_tar} |-> 1], TRUE) }

(***************************************************************************)
(* State.                                                                  *)
(***************************************************************************)
VARIABLES
    fs,            \* directory -> name -> [kind, mtime, data]
    orig,          \* fs as it was before the run
    build,         \* "copy": src/unnamed/part_000, "rename": src/cmd/root.go
    sourceDir,     \* --source / GETNEW_SOURCE_DIR
    nthNewest,     \* --nth
    fileFilter,    \* the optional argument
    unarchive,     \* --unarchive
    pc,            \* position of the run
    regularFiles,  \* the candidate list of moveNthNewestFile, sorted by moveFile
    fileToMove,    \* name of the selected file
    ops,           \* system calls made so far, in order
    stdout,        \* lines printed on standard output
    stderr,        \* lines printed on standard error
    exitCode       \* exit status, meaningful when pc = "exit"

vars == << fs, orig, build, sourceDir, nthNewest, fileFilter, unarchive, pc,
           regularFiles, fileToMove, ops, stdout, stderr, exitCode >>

config == << orig, build, sourceDir, nthNewest, fileFilter, unarchive >>

NoName == << >>

\* a run that exercises selection: a varied source directory, empty current directory
InitSelection ==
    /\ \E t \in Listings(SelectionNames, MaxFiles) :
          fs = [d \in Dirs |-> IF d = "dl" THEN DirOf(t, FALSE) ELSE NoDir]
    /\ sourceDir = "dl"
    /\ build \in {"copy", "rename"}
    /\ unarchive = FALSE
    /\ fileFilter \in Filters
    /\ nthNewest \in NthValues

\* the entries S, each newer than the entries that sort before it by name
TimesByName(S) == [n \in S |-> Cardinality({m \in S : StrLess(m, n)}) + 1]

\* a run that exercises relocation and unarchiving: the source directory may be
\* the current directory, the current directory may already hold entries
InitRelocation ==
    /\ build \in {"copy", "rename"}
    /\ sourceDir \in Dirs
    /\ \E S \in {T \in SUBSET ArchiveNames : Cardinality(T) < MaxFiles} :
          \/ /\ sourceDir = "dl"
             /\ \E c \in CwdBefore :
                   fs = [d \in Dirs |-> IF d = "dl" THEN DirOf(TimesByName(S), FALSE) ELSE c]
          \/ /\ sourceDir = Cwd
             /\ fs = [d \in Dirs |-> IF d = Cwd THEN DirOf(TimesByName(S), FALSE) ELSE NoDir]
    /\ unarchive \in (IF build = "copy" THEN BOOLEAN ELSE {FALSE})
    /\ fileFilter = << >>
    /\ nthNewest \in 0..MaxFiles

Init ==
    /\ InitSelection \/ InitRelocation
    /\ orig = fs
    /\ pc = "start"
    /\ regularFiles = << >>
    /\ fileToMove = NoName
    /\ ops = << >>
    /\ stdout = << >>
    /\ stderr = << >>
    /\ exitCode = 0

(***************************************************************************)
(* Library functions.                                                      *)
(***************************************************************************)
\* os.ReadDir: the names of a directory "sorted by filename"
RECURSIVE SortedNames(_)
SortedNames(S) ==
    IF S = {} THEN << >>
    ELSE LET first == CHOOSE n \in S : \A m \in S \ {n} : StrLess(n, m)
         IN  << first >> \o SortedNames(S \ {first})

ReadDir(dir) == SortedNames(DOMAIN fs[dir])

\* DirEntry.IsDir
IsDir(dir, n) == fs[dir][n].kind = "dir"

\* DirEntry.Info: name, modification time and mode of the entry itself
Info(dir, n) == [name |-> n, modTime |-> fs[dir][n].mtime, mode |-> fs[dir][n].kind]

\* time.Time.After
After(t, u) == t > u

\* the comparison handed to sort.Slice
Less(x, y) == After(x.modTime, y.modTime)

\* sort.Slice: "The sort is not guaranteed to be stable: equal elements may be
\* reversed from their original order."  The outcomes are every arrangement of
\* the elements in which no later element is less than an earlier one.  (The
\* library sorts up to 12 elements by insertion and longer slices by
\* pattern-defeating quicksort, which moves the pivot to the front of its range;
\* which arrangement comes out is the library's affair, not the caller's.)
RECURSIVE SortSlice(_)
SortSlice(S) ==
    IF S = {} THEN { << >> }
    ELSE UNION { { << x >> \o r : r \in SortSlice(S \ {x}) } :
                 x \in {y \in S : \A z \in S : ~Less(z, y)} }

Range(seq) == {seq[i] : i \in 1..Len(seq)}

\* filepath.Join(dir, name), kept as the pair (directory, name)
Join(dir, n) == << dir, n >>

(***************************************************************************)
(* Selection: moveNthNewestFile, and moveFile up to the choice of file.    *)
(***************************************************************************)
\* the filter test of the listing loop
Matches(name, filter) ==
    filter = << >> \/ Contains(ToLower(name), ToLower(filter))

\* the loop over the listing: the entries appended to regularFiles, in order
Candidates(dir, filter) ==
    LET keep(n) == ~IsDir(dir, n) /\ Matches(Info(dir, n).name, filter)
        names == SelectSeq(ReadDir(dir), keep)
    IN  [i \in 1..Len(names) |-> Info(dir, names[i])]

\* faulty variant: a range check that lets one rank too many through
RankTooLarge_OffByOne(nth, count) == nth > count + 1

\* the range check before the index
RankTooLarge(nth, count) == nth > count

\* faulty variant: regularFiles[nthNewest]
RankIndex_NoDecrement(nth) == nth + 1

\* the index of the selected element, 1-based: regularFiles[nthNewest-1]
RankIndex(nth) == (nth - 1) + 1

Call(op, path, argv, ok) == [op |-> op, path |-> path, argv |-> argv, ok |-> ok]

\* rootCmd.Run on an error of moveNthNewestFile: print it, exit 1
Fail(msg) ==
    /\ stderr' = Append(stderr, [fmt |-> "Error: %v\n", err |-> msg])
    /\ exitCode' = 1
    /\ pc' = "exit"

\* os.ReadDir(sourceDir) fails
ReadSourceDirFails ==
    /\ pc = "start"
    /\ ops' = Append(ops, Call("readdir", Join(sourceDir, NoName), << >>, FALSE))
    /\ Fail("failed to read source directory")
    /\ UNCHANGED << fs, config, regularFiles, fileToMove, stdout >>

\* file.Info() fails on an entry that is not a directory
FileInfoFails ==
    /\ pc = "start"
    /\ \E n \in DOMAIN fs[sourceDir] : ~IsDir(sourceDir, n)
    /\ ops' = Append(ops, Call("readdir", Join(sourceDir, NoName), << >>, TRUE))
    /\ Fail("failed to get file info")
    /\ UNCHANGED << fs, config, regularFiles, fileToMove, stdout >>

\* the listing, the filter, the sort and the choice of the file to move
SelectFile ==
    /\ pc = "start"
    /\ ops' = Append(ops, Call("readdir", Join(sourceDir, NoName), << >>, TRUE))
    /\ LET found == Candidates(sourceDir, fileFilter)
       IN  IF Len(found) = 0
           THEN /\ Fail(IF fileFilter # << >>
                        THEN "no files matching '%s' found in the source directory"
                        ELSE "no files found in the source directory")
                /\ UNCHANGED << regularFiles, fileToMove >>
           ELSE \E sorted \in SortSlice(Range(found)) :
                  /\ regularFiles' = sorted
                  /\ IF RankTooLarge(nthNewest, Len(sorted))
                     THEN /\ Fail("requested %dth newest file, but only %d files available")
                          /\ UNCHANGED fileToMove
                     ELSE IF RankIndex(nthNewest) \notin 1..Len(sorted)
                     THEN \* index out of range: the Go runtime panics, exit status 2
                          /\ stderr' = Append(stderr,
                                [fmt |-> "panic: %v\n",
                                 err |-> "runtime error: index out of range"])
                          /\ exitCode' = 2
                          /\ pc' = "exit"
                          /\ UNCHANGED fileToMove
                     ELSE /\ fileToMove' = sorted[RankIndex(nthNewest)].name
                          /\ pc' = IF build = "copy" THEN "open" ELSE "rename"
                          /\ UNCHANGED << stderr, exitCode >>
    /\ UNCHANGED << fs, config, stdout >>

(***************************************************************************)
(* Relocation, src/unnamed/part_000: moveFile from os.Open to the print.   *)
(***************************************************************************)
sourcePath == Join(sourceDir, fileToMove)
destPath == Join(Cwd, fileToMove)

Exists(path) == path[2] \in DOMAIN fs[path[1]]
File(path) == fs[path[1]][path[2]]

\* the file system with the entry at path set to e
WithEntry(f, path, e) ==
    [f EXCEPT ![path[1]] =
        [n \in DOMAIN f[path[1]] \cup {path[2]} |->
            IF n = path[2] THEN e ELSE f[path[1]][n]]]

\* the file system without the entry at path
WithoutEntry(f, path) ==
    [f EXCEPT ![path[1]] = [n \in DOMAIN f[path[1]] \ {path[2]} |-> f[path[1]][n]]]

Now == MaxTime + 1

\* os.Create: truncate the file at path if there is one, else make an empty file
Created(f, path) ==
    WithEntry(f, path,
        IF path[2] \in DOMAIN f[path[1]]
        THEN [f[path[1]][path[2]] EXCEPT !.data = << >>, !.mtime = Now]
        ELSE [kind |-> "file", mtime |-> Now, data |-> << >>])

\* the destination after n bytes of data were written to it
Written(f, path, data, n) ==
    WithEntry(f, path, [f[path[1]][path[2]] EXCEPT !.data = SubSeq(data, 1, n)])

OpenSource ==
    /\ pc = "open"
    /\ \E ok \in BOOLEAN :
          /\ ops' = Append(ops, Call("open", sourcePath, << >>, ok))
          /\ IF ok THEN pc' = "create" /\ UNCHANGED << stderr, exitCode >>
                   ELSE Fail("failed to open source file")
    /\ UNCHANGED << fs, config, regularFiles, fileToMove, stdout >>

CreateDest ==
    /\ pc = "create"
    /\ \E ok \in BOOLEAN :
          /\ ops' = Append(ops, Call("create", destPath, << >>, ok))
          /\ IF ok THEN /\ fs' = Created(fs, destPath)
                        /\ pc' = "copy"
                        /\ UNCHANGED << stderr, exitCode >>
                   ELSE /\ Fail("failed to create destination file")
                        /\ UNCHANGED fs
    /\ UNCHANGED << config, regularFiles, fileToMove, stdout >>

\* io.Copy reads what the open source file holds now; a failed copy leaves the
\* bytes written up to the failure in the destination
CopyBytes ==
    /\ pc = "copy"
    /\ LET data == File(sourcePath).data
       IN  \/ /\ ops' = Append(ops, Call("copy", destPath, << >>, TRUE))
              /\ fs' = Written(fs, destPath, data, Len(data))
              /\ pc' = "closeSource"
              /\ UNCHANGED << stderr, exitCode >>
           \/ \E n \in 0..Len(data) :
              /\ ops' = Append(ops, Call("copy", destPath, << >>, FALSE))
              /\ fs' = Written(fs, destPath, data, n)
              /\ Fail("failed to copy file")
    /\ UNCHANGED << config, regularFiles, fileToMove, stdout >>

CloseSource ==
    /\ pc = "closeSource"
    /\ \E ok \in BOOLEAN :
          /\ ops' = Append(ops, Call("close", sourcePath, << >>, ok))
          /\ IF ok THEN pc' = "closeDest" /\ UNCHANGED << stderr, exitCode >>
                   ELSE Fail("failed to close source file")
    /\ UNCHANGED << fs, config, regularFiles, fileToMove, stdout >>

CloseDest ==
    /\ pc = "closeDest"
    /\ \E ok \in BOOLEAN :
          /\ ops' = Append(ops, Call("close", destPath, << >>, ok))
          /\ IF ok THEN pc' = "remove" /\ UNCHANGED << stderr, exitCode >>
                   ELSE Fail("failed to close destination file")
    /\ UNCHANGED << fs, config, regularFiles, fileToMove, stdout >>

RemoveOriginal ==
    /\ pc = "remove"
    /\ \E ok \in BOOLEAN :
          /\ ops' = Append(ops, Call("remove", sourcePath, << >>, ok))
          /\ IF ok THEN /\ fs' = WithoutEntry(fs, sourcePath)
                        /\ pc' = "print"
                        /\ UNCHANGED << stderr, exitCode >>
                   ELSE /\ Fail("failed to remove original file")
                        /\ UNCHANGED fs
    /\ UNCHANGED << config, regularFiles, fileToMove, stdout >>

\* faulty variant: the message of the rename build printed besides the name
PrintName_WithMessage ==
    /\ pc = "print"
    /\ stdout' = stdout \o << [fmt |-> "Moved %s to current directory\n", arg |-> fileToMove],
                             [fmt |-> "%s\n", arg |-> fileToMove] >>
    /\ pc' = IF unarchive THEN "unarchive" ELSE "exit"
    /\ UNCHANGED << fs, config, regularFiles, fileToMove, ops, stderr, exitCode >>

\* fmt.Printf("%s\n", name); back in rootCmd.Run, the run ends unless --unarchive
PrintName ==
    /\ pc = "print"
    /\ stdout' = Append(stdout, [fmt |-> "%s\n", arg |-> fileToMove])
    /\ pc' = IF unarchive THEN "unarchive" ELSE "exit"
    /\ UNCHANGED << fs, config, regularFiles, fileToMove, ops, stderr, exitCode >>

(***************************************************************************)
(* Relocation, src/cmd/root.go: os.Rename and the print.                   *)
(***************************************************************************)
\* rename(2): the entry moves to the new path, replacing what was there; a rename
\* of a path to itself changes nothing
Renamed(f, from, to) ==
    IF from = to THEN f
    ELSE WithoutEntry(WithEntry(f, to, f[from[1]][from[2]]), from)

RenameFile ==
    /\ pc = "rename"
    /\ \E ok \in BOOLEAN :
          /\ ops' = Append(ops, Call("rename", sourcePath, << >>, ok))
          /\ IF ok THEN /\ fs' = Renamed(fs, sourcePath, destPath)
                        /\ stdout' = Append(stdout,
                              [fmt |-> "Moved %s to current directory\n",
                               arg |-> fileToMove])
                        /\ pc' = "exit"
                        /\ UNCHANGED << stderr, exitCode >>
                   ELSE /\ Fail("failed to move file")
                        /\ UNCHANGED << fs, stdout >>
    /\ UNCHANGED << config, regularFiles, fileToMove >>

(***************************************************************************)
(* Unarchiving, src/unnamed/part_000: unarchiveFile.                       *)
(***************************************************************************)
ext_zip == << ".", "z", "i", "p" >>
ext_gz == << ".", "g", "z" >>
ext_tgz == << ".", "t", "g", "z" >>
ext_tar == << ".", "t", "a", "r" >>
ext_7z == << ".", "7", "z" >>

\* faulty variant: the switch on the extension as written in the name
Command_CaseSensitive(name) ==
    LET ext == Ext(name)
    IN  IF ext = ext_zip THEN << "unzip", name >>
        ELSE IF ext = ext_gz \/ ext = ext_tgz THEN << "tar", "-xzf", name >>
        ELSE IF ext = ext_tar THEN << "tar", "-xf", name >>
        ELSE IF ext = ext_7z THEN << "7z", "x", name >>
        ELSE << >>

\* the switch on the lower-cased extension: the command line, empty for "default"
Command(name) ==
    LET ext == ToLower(Ext(name))
    IN  IF ext = ext_zip THEN << "unzip", name >>
        ELSE IF ext = ext_gz \/ ext = ext_tgz THEN << "tar", "-xzf", name >>
        ELSE IF ext = ext_tar THEN << "tar", "-xf", name >>
        ELSE IF ext = ext_7z THEN << "7z", "x", name >>
        ELSE << >>

\* the loop over the listing: the first entry the switch gives a command for
RECURSIVE FirstArchive(_)
FirstArchive(names) ==
    IF names = << >> THEN NoName
    ELSE IF Command(Head(names)) # << >> THEN Head(names)
    ELSE FirstArchive(Tail(names))

\* rootCmd.Run on an error of unarchiveFile: print it, exit 1
FailUnarchive(msg) ==
    /\ stderr' = Append(stderr, [fmt |-> "Error unarchiving: %v\n", err |-> msg])
    /\ exitCode' = 1
    /\ pc' = "exit"

\* os.ReadDir(".") fails
ReadCurrentDirFails ==
    /\ pc = "unarchive"
    /\ ops' = Append(ops, Call("readdir", Join(Cwd, NoName), << >>, FALSE))
    /\ FailUnarchive("failed to read current directory")
    /\ UNCHANGED << fs, config, regularFiles, fileToMove, stdout >>

\* faulty variant: the error of cmd.Run ignored: the archive is removed all the same
RunExtractor_IgnoringFailure ==
    /\ pc = "unarchive"
    /\ LET file == FirstArchive(ReadDir(Cwd))
           listed == Append(ops, Call("readdir", Join(Cwd, NoName), << >>, TRUE))
       IN  IF file = NoName
           THEN /\ ops' = listed
                /\ FailUnarchive("no recognized archive file found in the current directory")
           ELSE \E ok \in BOOLEAN :
                  /\ ops' = Append(listed, Call("exec", Join(Cwd, file), Command(file), ok))
                  /\ pc' = "removeArchive"
                  /\ UNCHANGED << stderr, exitCode >>
    /\ UNCHANGED << fs, config, regularFiles, fileToMove, stdout >>

\* the listing, the loop and cmd.Run of the first recognized entry
RunExtractor ==
    /\ pc = "unarchive"
    /\ LET file == FirstArchive(ReadDir(Cwd))
           listed == Append(ops, Call("readdir", Join(Cwd, NoName), << >>, TRUE))
       IN  IF file = NoName
           THEN /\ ops' = listed
                /\ FailUnarchive("no recognized archive file found in the current directory")
           ELSE \E ok \in BOOLEAN :
                  /\ ops' = Append(listed, Call("exec", Join(Cwd, file), Command(file), ok))
                  /\ IF ok THEN pc' = "removeArchive" /\ UNCHANGED << stderr, exitCode >>
                           ELSE FailUnarchive("failed to unarchive %s")
    /\ UNCHANGED << fs, config, regularFiles, fileToMove, stdout >>

\* the entry cmd.Run was given
archiveFile == ops[Len(ops)].path

\* os.Remove of the archive and the closing message
RemoveArchive ==
    /\ pc = "removeArchive"
    /\ \E ok \in BOOLEAN :
          /\ ops' = Append(ops, Call("remove", archiveFile, << >>, ok))
          /\ IF ok THEN /\ fs' = WithoutEntry(fs, archiveFile)
                        /\ stdout' = Append(stdout,
                              [fmt |-> "Unarchived and removed: %s\n",
                               arg |-> archiveFile[2]])
                        /\ pc' = "exit"
                        /\ UNCHANGED << stderr, exitCode >>
                   ELSE /\ FailUnarchive("failed to remove original archive file")
                        /\ UNCHANGED << fs, stdout >>
    /\ UNCHANGED << config, regularFiles, fileToMove >>

Next ==
    \/ ReadSourceDirFails
    \/ FileInfoFails
    \/ SelectFile
    \/ OpenSource
    \/ CreateDest
    \/ CopyBytes
    \/ CloseSource
    \/ CloseDest
    \/ RemoveOriginal
    \/ PrintName
    \/ RenameFile
    \/ ReadCurrentDirFails
    \/ RunExtractor
    \/ RemoveArchive

Spec == Init /\ [][Next]_vars

(***************************************************************************)
(* Vocabulary of the properties, stated on the directory as it was before  *)
(* the run and on what the run printed and called.                         *)
(***************************************************************************)
Before(n) == orig[sourceDir][n]

IsUpper(c) == Ord(c) >= UpperFirst /\ Ord(c) <= UpperLast

\* two characters that differ at most in case
SameLetter(c, d) ==
    \/ c = d
    \/ IsUpper(c) /\ Ord(d) = Ord(c) + CaseGap
    \/ IsUpper(d) /\ Ord(c) = Ord(d) + CaseGap

\* name contains filter case-insensitively
NameHasFilter(name, filter) ==
    \E k \in 0..(Len(name) - Len(filter)) :
        \A j \in 1..Len(filter) : SameLetter(name[k + j], filter[j])

\* the non-directory entries whose names contain the filter
Eligible ==
    {n \in DOMAIN orig[sourceDir] : Before(n).kind # "dir" /\ NameHasFilter(n, fileFilter)}

Newer(n) == {m \in Eligible : Before(m).mtime > Before(n).mtime}

DistinctTimes == \A m, n \in Eligible : m # n => Before(m).mtime # Before(n).mtime

Selected == fileToMove # NoName

ErrIs(msg) == stderr # << >> /\ stderr[1].err = msg

\* the listing was read and every file.Info() answered
Listed ==
    /\ ops # << >>
    /\ ops[1].ok
    /\ ~ErrIs("failed to get file info")

NotFound ==
    \/ ErrIs("no files found in the source directory")
    \/ ErrIs("no files matching '%s' found in the source directory")

OutOfRange == ErrIs("requested %dth newest file, but only %d files available")

Panicked == ErrIs("runtime error: index out of range")

NameLine == [fmt |-> "%s\n", arg |-> fileToMove]

\* the relocation has just reported success
MoveReturned ==
    /\ Len(stdout) = 1
    /\ ops[Len(ops)].ok
    /\ ops[Len(ops)].path = sourcePath
    /\ ops[Len(ops)].op \in {"remove", "rename"}

\* every call made while selecting: the one listing of the source directory
OnlyListed == Len(ops) = 1 /\ ops[1].op = "readdir"

(***************************************************************************)
(* C1.  Whenever moveFile returns success, the file no longer exists at    *)
(* its source path and a file of the same base name exists in the current  *)
(* directory with the bytes the source file had before the run; the source *)
(* directory may be the current directory.                                 *)
(***************************************************************************)
C1_MoveLeavesIdenticalCopy ==
    (build = "copy" /\ MoveReturned) =>
        /\ ~Exists(sourcePath)
        /\ Exists(destPath)
        /\ File(destPath).data = Before(fileToMove).data

(***************************************************************************)
(* C2.  With pairwise-distinct modification times and a rank between 1 and *)
(* the number of candidates, the file moved is the one at that 1-based     *)
(* position in the time-descending order of the non-directory entries      *)
(* whose names contain the filter case-insensitively; with a.txt oldest,   *)
(* c.txt in the middle and b.log newest, rank 2 selects c.txt and filter   *)
(* "txt" with rank 1 selects c.txt.                                        *)
(***************************************************************************)
ReadmeExample ==
    /\ DOMAIN orig[sourceDir] = {a_txt, b_log, c_txt}
    /\ Before(a_txt).mtime < Before(c_txt).mtime
    /\ Before(c_txt).mtime < Before(b_log).mtime

C2_MovesRankedFile ==
    /\ (pc # "start" /\ nthNewest \in 1..Cardinality(Eligible) /\ DistinctTimes) =>
          /\ Selected =>
                /\ fileToMove \in Eligible
                /\ Cardinality(Newer(fileToMove)) = nthNewest - 1
          /\ stdout # << >> => stdout[1].arg = fileToMove
          /\ MoveReturned =>
                \A n \in DOMAIN orig[sourceDir] \ {fileToMove} :
                    n \in DOMAIN fs[sourceDir] /\ fs[sourceDir][n] = Before(n)
          /\ (MoveReturned /\ sourceDir # Cwd) =>
                fileToMove \notin DOMAIN fs[sourceDir] /\ fileToMove \in DOMAIN fs[Cwd]
          /\ (pc = "exit" /\ Listed) => ~(NotFound \/ OutOfRange \/ Panicked)
    /\ (ReadmeExample /\ Selected) =>
          /\ (nthNewest = 2 /\ fileFilter = << >>) => fileToMove = c_txt
          /\ (nthNewest = 1 /\ fileFilter = << "t", "x", "t" >>) => fileToMove = c_txt

C2_Witness ==
    /\ ReadmeExample
    /\ nthNewest = 1
    /\ fileFilter = << "t", "x", "t" >>
    /\ MoveReturned
    /\ stdout[1].arg = c_txt

(***************************************************************************)
(* C3.  A rank greater than the number of candidates fails with the        *)
(* out-of-range error, for every candidate list: no file is opened,        *)
(* created, copied or removed and nothing is printed on stdout.            *)
(***************************************************************************)
C3_RankBeyondCountIsOutOfRange ==
    (pc = "exit" /\ Listed /\ nthNewest > Cardinality(Eligible)) =>
        /\ OutOfRange
        /\ exitCode = 1
        /\ OnlyListed
        /\ stdout = << >>
        /\ fs = orig

\* C3 as amended: the out-of-range error needs a candidate; with none the run
\* fails with the not-found error; either way nothing is touched or printed.
C3_RankBeyondCountFails ==
    (pc = "exit" /\ Listed /\ nthNewest > Cardinality(Eligible)) =>
        /\ IF Eligible = {} THEN NotFound ELSE OutOfRange
        /\ exitCode = 1
        /\ OnlyListed
        /\ stdout = << >>
        /\ fs = orig
        /\ ~Selected

C3_Witness ==
    /\ pc = "exit"
    /\ Listed
    /\ Cardinality(Eligible) = 2
    /\ nthNewest = 3
    /\ OutOfRange

(***************************************************************************)
(* C4.  Every run, for every value of --nth and every directory, ends      *)
(* either with exit code 0 after selection, relocation and (if asked for)  *)
(* extraction all succeeded, or with exit code 1 and an error message on   *)
(* stderr; no run ends in any other way.                                   *)
(***************************************************************************)
C4_ExitsZeroOrOne ==
    pc = "exit" =>
        \/ /\ exitCode = 0
           /\ stderr = << >>
           /\ stdout # << >>
        \/ /\ exitCode = 1
           /\ Len(stderr) = 1
           /\ stderr[1].fmt \in {"Error: %v\n", "Error unarchiving: %v\n"}

(***************************************************************************)
(* C5.  On a fully successful run, with or without --unarchive, stdout is  *)
(* exactly the moved file's name; when selection or relocation fails       *)
(* nothing is written to stdout; the name is written only after the        *)
(* original file has been removed.                                         *)
(***************************************************************************)
MoveFailed == pc = "exit" /\ stderr # << >> /\ stderr[1].fmt # "Error unarchiving: %v\n"

OriginalRemoved == \E i \in 1..Len(ops) : ops[i] = Call("remove", sourcePath, << >>, TRUE)

C5_StdoutIsOnlyTheName ==
    build = "copy" =>
        /\ (pc = "exit" /\ exitCode = 0) => stdout = << NameLine >>
        /\ MoveFailed => stdout = << >>
        /\ stdout # << >> => OriginalRemoved

\* C5 as amended: without --unarchive stdout is exactly the name; with it, a
\* successful extraction adds the line "Unarchived and removed: <archive>".
C5_StdoutIsTheNameThenTheArchive ==
    build = "copy" =>
        /\ (pc = "exit" /\ exitCode = 0 /\ ~unarchive) => stdout = << NameLine >>
        /\ (pc = "exit" /\ exitCode = 0 /\ unarchive) =>
              /\ Len(stdout) = 2
              /\ stdout[1] = NameLine
              /\ stdout[2].fmt = "Unarchived and removed: %s\n"
              /\ stdout[2].arg = ops[Len(ops)].path[2]
        /\ (pc = "exit" /\ exitCode # 0 /\ ~MoveFailed) => stdout = << NameLine >>
        /\ MoveFailed => stdout = << >>
        /\ stdout # << >> => OriginalRemoved /\ stdout[1] = NameLine
        /\ pc \in {"start", "open", "create", "copy", "closeSource", "closeDest", "remove"}
              => stdout = << >>

C5_Witness ==
    /\ build = "copy"
    /\ pc = "exit"
    /\ exitCode = 0
    /\ unarchive
    /\ Len(stdout) = 2
    /\ stdout[2].arg # fileToMove

(***************************************************************************)
(* C6.  Candidates with identical modification times are placed by the     *)
(* sort in their directory-enumeration order, so that the file selected    *)
(* for a rank is determined by the listing alone.                          *)
(***************************************************************************)
\* position of a name in the enumeration of the source directory
EnumIndex(n) == Cardinality({m \in DOMAIN orig[sourceDir] : StrLess(m, n)})

\* the candidates a stable descending sort places before n
StablyBefore(n) ==
    {m \in Eligible :
        \/ Before(m).mtime > Before(n).mtime
        \/ Before(m).mtime = Before(n).mtime /\ EnumIndex(m) < EnumIndex(n)}

C6_TiesKeepListingOrder ==
    Selected =>
        /\ \A i, j \in 1..Len(regularFiles) :
              (i < j /\ regularFiles[i].modTime = regularFiles[j].modTime) =>
                  EnumIndex(regularFiles[i].name) < EnumIndex(regularFiles[j].name)
        /\ Cardinality(StablyBefore(fileToMove)) = nthNewest - 1

(***************************************************************************)
(* C7.  The candidate list, and so the file selected, holds only regular   *)
(* files: never a directory, never an entry of another kind such as a      *)
(* symbolic link.                                                          *)
(***************************************************************************)
C7_OnlyRegularFiles ==
    /\ \A i \in 1..Len(regularFiles) : regularFiles[i].mode = "file"
    /\ Selected => Before(fileToMove).kind = "file"

(***************************************************************************)
(* Vocabulary of the dispatcher's properties.                              *)
(***************************************************************************)
\* the names of the model with a recognized archive extension, and the command
\* line the documented table gives each
Unzipped == {d_ZIP}
TarGz == {k_tar_gz, m_tgz}
TarPlain == {g_tar, A_tar}
SevenZip == {z_7z}
Recognized == Unzipped \cup TarGz \cup TarPlain \cup SevenZip

TableCommand(n) ==
    IF n \in Unzipped THEN << "unzip", n >>
    ELSE IF n \in TarGz THEN << "tar", "-xzf", n >>
    ELSE IF n \in TarPlain THEN << "tar", "-xf", n >>
    ELSE << "7z", "x", n >>

\* the recognized names in the order a listing of the directory gives them
\* (by file name, upper case before lower case)
Enumerated == << A_tar, d_ZIP, g_tar, k_tar_gz, m_tgz, z_7z >>

EnumPos(n) == CHOOSE i \in 1..Len(Enumerated) : Enumerated[i] = n

\* the entries of the current directory when the dispatcher starts
CwdAtDispatch ==
    IF sourceDir = Cwd THEN DOMAIN orig[Cwd] \ {fileToMove}
    ELSE DOMAIN orig[Cwd] \cup {fileToMove}

Deleted == CwdAtDispatch \ DOMAIN fs[Cwd]

Execs == {i \in 1..Len(ops) : ops[i].op = "exec"}

ExecSucceeded == \E i \in Execs : ops[i].ok

\* the dispatcher ran and returned
Dispatched == build = "copy" /\ unarchive /\ pc = "exit" /\ stdout # << >>

ListedCwd == \E i \in 1..Len(ops) : ops[i] = Call("readdir", Join(Cwd, NoName), << >>, TRUE) /\ i > 1

(***************************************************************************)
(* C8.  The archive file is deleted if and only if the extraction command  *)
(* was started and exited successfully; if the command fails the           *)
(* dispatcher returns an error and the archive still exists; with no       *)
(* recognized entry it returns the no-archive-found error and deletes      *)
(* nothing.                                                                *)
(***************************************************************************)
C8_DeletedIffExtracted ==
    Dispatched =>
        /\ Deleted # {} <=> ExecSucceeded
        /\ \A i \in Execs :
              /\ ops[i].ok => Deleted = {ops[i].path[2]}
              /\ ~ops[i].ok => /\ ErrIs("failed to unarchive %s")
                               /\ exitCode = 1
                               /\ Deleted = {}
        /\ (ListedCwd /\ CwdAtDispatch \cap Recognized = {}) =>
              /\ ErrIs("no recognized archive file found in the current directory")
              /\ exitCode = 1
              /\ Deleted = {}

\* C8 as amended: deleted only if the command succeeded, and then unless the
\* removal itself fails, which is reported and leaves the archive in place.
C8_DeletedOnlyIfExtracted ==
    Dispatched =>
        /\ Deleted # {} => ExecSucceeded
        /\ \A i \in Execs :
              /\ ops[i].ok =>
                    \/ Deleted = {ops[i].path[2]} /\ exitCode = 0
                    \/ /\ Deleted = {}
                       /\ ErrIs("failed to remove original archive file")
                       /\ exitCode = 1
              /\ ~ops[i].ok => /\ ErrIs("failed to unarchive %s")
                               /\ exitCode = 1
                               /\ Deleted = {}
        /\ (ListedCwd /\ CwdAtDispatch \cap Recognized = {}) =>
              /\ ErrIs("no recognized archive file found in the current directory")
              /\ exitCode = 1
              /\ Deleted = {}
              /\ Execs = {}

C8_Witness ==
    /\ Dispatched
    /\ \E i \in Execs : ~ops[i].ok /\ ops[i].path[2] \in DOMAIN fs[Cwd]
    /\ Cardinality(CwdAtDispatch \cap Recognized) = 2

StepErrors ==
    { "failed to open source file", "failed to create destination file",
      "failed to copy file", "failed to close source file",
      "failed to close destination file" }

C10_FailureLeavesOriginal ==
    (build = "copy" /\ pc = "exit" /\ \E e \in StepErrors : ErrIs(e)) =>
        /\ \A i \in 1..Len(ops) : ops[i].op # "remove"
        /\ ops[Len(ops)].ok = FALSE
        /\ Exists(sourcePath)
        /\ File(sourcePath).data = Before(fileToMove).data

====
